---- MODULE Spec2Model ----
(***************************************************************************)
(* A model of the replicating key/value server of src/src/main.rs, with    *)
(* its frame codec (src/src/tokenizer.rs) and command model                *)
(* (src/src/commands.rs).                                                  *)
(*                                                                         *)
(* Bytes are one-character strings; a buffer is a sequence of bytes.       *)
(* Three specifications share the codec:                                   *)
(*   Spec         the leader: client threads running SET / WAIT / PSYNC,   *)
(*                the follower registry, the followers' streams and the    *)
(*                replica-inbound workers (sockets carry whole frames);    *)
(*   SpecSession  one client session (handle_client) over a byte stream    *)
(*                that socket reads cut at arbitrary places;               *)
(*   SpecFollower one follower worker (connect_master) over a byte stream  *)
(*                that socket reads cut at arbitrary places.               *)
(***************************************************************************)
EXTENDS Integers, Sequences, FiniteSets, TLC

(***************************************************************************)
(* Bytes, decimal text                                                     *)
(***************************************************************************)
CRLF == <<"\r", "\n">>

Digits == <<"0", "1", "2", "3", "4", "5", "6", "7", "8", "9">>

IsDigit(c) == \E d \in 1..10 : Digits[d] = c

DigitVal(c) == (CHOOSE d \in 1..10 : Digits[d] = c) - 1

\* i64::to_string / usize::to_string / u64::to_string
RECURSIVE to_string(_)
to_string(n) ==
    IF n < 0 THEN <<"-">> \o to_string(0 - n)
    ELSE IF n < 10 THEN <<Digits[n + 1]>>
    ELSE to_string(n \div 10) \o <<Digits[(n % 10) + 1]>>

RECURSIVE DigitsValue(_)
DigitsValue(s) ==
    IF s = <<>> THEN 0
    ELSE DigitsValue(SubSeq(s, 1, Len(s) - 1)) * 10 + DigitVal(s[Len(s)])

AllDigits(s) == s # <<>> /\ \A i \in 1..Len(s) : IsDigit(s[i])

\* Bytes that are not ASCII text (the snapshot blob holds some): String::from_utf8
\* fails on a buffer holding one.
IsRawByte(c) == c \in {"xfa", "xc0", "xc2", "xbc", "xb0", "xc4", "xff", "xf0", "xfe", "xa2"}

from_utf8_ok(s) == \A i \in 1..Len(s) : ~IsRawByte(s[i])

\* str::parse::<usize>() / ::<u64>() / ::<u16>(): an optional '+', then digits;
\* no '-', no empty text, nothing above the type's maximum.  The texts of this
\* model stay far below 2^31, so only u16's maximum is stated.
parse_unsigned(s, max) ==
    LET body == IF s # <<>> /\ s[1] = "+" THEN Tail(s) ELSE s
    IN  IF AllDigits(body) /\ Len(body) <= 9 /\ DigitsValue(body) <= max
        THEN [ok |-> TRUE, v |-> DigitsValue(body)]
        ELSE [ok |-> FALSE, v |-> 0]

\* str::parse::<i64>(): an optional '+' or '-', then digits.
parse_i64(s) ==
    LET neg  == s # <<>> /\ s[1] = "-"
        body == IF s # <<>> /\ s[1] \in {"+", "-"} THEN Tail(s) ELSE s
    IN  IF AllDigits(body) /\ Len(body) <= 9
        THEN [ok |-> TRUE, v |-> IF neg THEN 0 - DigitsValue(body) ELSE DigitsValue(body)]
        ELSE [ok |-> FALSE, v |-> 0]

NoMax == 999999999

U16Max == 65535

(***************************************************************************)
(* tokenizer.rs: Resp, encode_to_bytes, read_next_line, tokenize_bytes     *)
(***************************************************************************)
Array(vec) == [t |-> "Array", v |-> vec]

BulkString(text) == [t |-> "BulkString", s |-> text]

SimpleString(text) == [t |-> "SimpleString", s |-> text]

Integer(num) == [t |-> "Integer", n |-> num]

NullBulkString == [t |-> "NullBulkString"]

Empty == [t |-> "Empty"]

RECURSIVE encode_to_bytes(_)
RECURSIVE EncodeAll(_)
EncodeAll(vec) ==
    IF vec = <<>> THEN <<>> ELSE encode_to_bytes(Head(vec)) \o EncodeAll(Tail(vec))

encode_to_bytes(r) ==
    CASE r.t = "Array" -> <<"*">> \o to_string(Len(r.v)) \o CRLF \o EncodeAll(r.v)
      [] r.t = "BulkString" -> <<"$">> \o to_string(Len(r.s)) \o CRLF \o r.s \o CRLF
      [] r.t = "SimpleString" -> <<"+">> \o r.s \o CRLF
      [] r.t = "Integer" -> <<":">> \o to_string(r.n) \o CRLF
      [] r.t = "NullBulkString" -> <<"$", "-", "1">> \o CRLF
      [] r.t = "Empty" -> <<>>

\* The index of the first "\r\n" of the buffer (0-based, as windows(2).position),
\* or -1 when there is none.
RnPosition(buffer) ==
    LET hits == {i \in 1..(Len(buffer) - 1) : buffer[i] = "\r" /\ buffer[i + 1] = "\n"}
    IN  IF hits = {} THEN 0 - 1
        ELSE (CHOOSE i \in hits : \A j \in hits : i <= j) - 1

\* read_next_line: the bytes before the first "\r\n" and the bytes after it; the
\* whole buffer and an empty remainder when the buffer holds no "\r\n".
read_next_line(buffer) ==
    LET idx == RnPosition(buffer)
    IN  IF idx < 0
        THEN [line |-> buffer, remainder |-> <<>>]
        ELSE [line |-> SubSeq(buffer, 1, idx),
              remainder |-> SubSeq(buffer, idx + 3, Len(buffer))]

TokErr == [st |-> "err", remainder |-> <<>>, val |-> Empty]

\* unimplemented!() and slice-index panics unwind the calling thread.
TokPanic == [st |-> "panic", remainder |-> <<>>, val |-> Empty]

TokOk(rem, resp) == [st |-> "ok", remainder |-> rem, val |-> resp]

RECURSIVE tokenize_bytes(_)
RECURSIVE TokenizeChildren(_, _, _)
\* the `for _ in 0..len` loop of the Array branch
TokenizeChildren(remainder, len, vec) ==
    IF len = 0 THEN TokOk(remainder, Array(vec))
    ELSE LET child == tokenize_bytes(remainder)
         IN  IF child.st # "ok" THEN child
             ELSE TokenizeChildren(child.remainder, len - 1, Append(vec, child.val))

tokenize_bytes(buffer) ==
    IF buffer = <<>> THEN TokErr
    ELSE LET first == read_next_line(buffer)
             head  == Tail(first.line)
         IN CASE buffer[1] = "*" ->
                   LET len == parse_unsigned(head, NoMax)
                   IN  IF ~from_utf8_ok(head) \/ ~len.ok THEN TokErr
                       ELSE TokenizeChildren(first.remainder, len.v, <<>>)
              [] buffer[1] = "$" ->
                   LET len    == parse_unsigned(head, NoMax)
                       second == read_next_line(first.remainder)
                   IN  IF ~from_utf8_ok(head) \/ ~len.ok THEN TokErr
                       ELSE IF ~from_utf8_ok(second.line) THEN TokErr
                       ELSE IF len.v # Len(second.line) THEN TokErr
                       ELSE TokOk(second.remainder, BulkString(second.line))
              [] buffer[1] = ":" ->
                   LET integer == parse_i64(head)
                   IN  IF ~from_utf8_ok(head) \/ ~integer.ok THEN TokErr
                       ELSE TokOk(first.remainder, Integer(integer.v))
              [] buffer[1] = "+" ->
                   IF ~from_utf8_ok(head) THEN TokErr
                   ELSE TokOk(first.remainder, SimpleString(head))
              [] OTHER -> TokPanic

(***************************************************************************)
(* commands.rs: RedisCommands, TryFrom<Resp>, From<RedisCommands> for Resp *)
(***************************************************************************)
UpperCase == <<"A", "B", "C", "D", "E", "F", "G", "H", "I", "J", "K", "L", "M", "N", "O", "P", "Q", "R", "S", "T", "U", "V", "W", "X", "Y", "Z">>

LowerCase == <<"a", "b", "c", "d", "e", "f", "g", "h", "i", "j", "k", "l", "m", "n", "o", "p", "q", "r", "s", "t", "u", "v", "w", "x", "y", "z">>

to_lowercase_byte(c) ==
    IF \E i \in 1..26 : UpperCase[i] = c
    THEN LowerCase[CHOOSE i \in 1..26 : UpperCase[i] = c]
    ELSE c

\* str::to_lowercase, and the two sides of eq_ignore_ascii_case
to_lowercase(s) == [i \in 1..Len(s) |-> to_lowercase_byte(s[i])]

T_PING == <<"P", "I", "N", "G">>

T_ECHO == <<"E", "C", "H", "O">>

T_SET == <<"S", "E", "T">>

T_GET == <<"G", "E", "T">>

T_PX == <<"P", "X">>

T_INFO == <<"I", "N", "F", "O">>

T_REPLICATION == <<"R", "E", "P", "L", "I", "C", "A", "T", "I", "O", "N">>

T_REPLCONF == <<"R", "E", "P", "L", "C", "O", "N", "F">>

T_LISTENING_PORT == <<"L", "I", "S", "T", "E", "N", "I", "N", "G", "-", "P", "O", "R", "T">>

T_CAPA == <<"C", "A", "P", "A">>

T_GETACK == <<"G", "E", "T", "A", "C", "K">>

T_ACK == <<"A", "C", "K">>

T_PSYNC == <<"P", "S", "Y", "N", "C">>

T_WAIT == <<"W", "A", "I", "T">>

Some(val) == [some |-> TRUE, v |-> val]

None == [some |-> FALSE]

Ping == [op |-> "Ping"]

Echo(text) == [op |-> "Echo", text |-> text]

Set(key, value, expire) == [op |-> "Set", key |-> key, value |-> value, expire |-> expire]

Get(key) == [op |-> "Get", key |-> key]

Info(section) == [op |-> "Info", section |-> section]

ReplConf(mode) == [op |-> "ReplConf", mode |-> mode]

ListeningPort(port) == [m |-> "ListeningPort", port |-> port]

Capability(capa) == [m |-> "Capability", text |-> capa]

GetAck(text) == [m |-> "GetAck", text |-> text]

Ack(offset) == [m |-> "Ack", offset |-> offset]

PSync(repl_id, repl_offset) == [op |-> "PSync", repl_id |-> repl_id, repl_offset |-> repl_offset]

Wait(num_replicas, timeout) == [op |-> "Wait", num_replicas |-> num_replicas, timeout |-> timeout]

CmdErr == [st |-> "err", cmd |-> Ping]

CmdPanic == [st |-> "panic", cmd |-> Ping]

CmdOk(c) == [st |-> "ok", cmd |-> c]

IsBulk(array, i) == i <= Len(array) /\ array[i].t = "BulkString"

\* impl TryFrom<(&str, &str)> for ReplConfMode
ReplConfMode_try_from(mode, arg) ==
    LET m == to_lowercase(mode)
    IN CASE m = to_lowercase(T_LISTENING_PORT) ->
              LET port == parse_unsigned(arg, U16Max)
              IN  IF port.ok THEN CmdOk(ReplConf(ListeningPort(port.v))) ELSE CmdErr
         [] m = to_lowercase(T_CAPA) -> CmdOk(ReplConf(Capability(arg)))
         [] m = to_lowercase(T_GETACK) -> CmdOk(ReplConf(GetAck(arg)))
         [] m = to_lowercase(T_ACK) ->
              LET offset == parse_i64(arg)
              IN  IF offset.ok THEN CmdOk(ReplConf(Ack(offset.v))) ELSE CmdErr
         [] OTHER -> CmdErr

\* impl TryFrom<Resp> for RedisCommands.  No arm reads "wait": a WAIT frame ends
\* in the unimplemented!() of the last arm, like every unknown command.
RedisCommands_try_from(value) ==
    IF value.t # "Array" THEN CmdErr
    ELSE LET array == value.v IN
    IF ~IsBulk(array, 1) THEN CmdErr
    ELSE LET command == to_lowercase(array[1].s) IN
    CASE command = to_lowercase(T_PING) -> CmdOk(Ping)
      [] command = to_lowercase(T_ECHO) ->
           IF IsBulk(array, 2) THEN CmdOk(Echo(array[2].s)) ELSE CmdErr
      [] command = to_lowercase(T_SET) ->
           IF ~(Len(array) >= 3 /\ IsBulk(array, 2) /\ IsBulk(array, 3)) THEN CmdErr
           ELSE IF Len(array) >= 5 /\ IsBulk(array, 4) /\ IsBulk(array, 5)
                   /\ to_lowercase(array[4].s) = to_lowercase(T_PX)
                THEN LET px == parse_unsigned(array[5].s, NoMax)
                     IN  IF px.ok THEN CmdOk(Set(array[2].s, array[3].s, Some(px.v)))
                         ELSE CmdErr
                ELSE CmdOk(Set(array[2].s, array[3].s, None))
      [] command = to_lowercase(T_GET) ->
           IF IsBulk(array, 2) THEN CmdOk(Get(array[2].s)) ELSE CmdErr
      [] command = to_lowercase(T_INFO) ->
           IF Len(array) < 2 THEN CmdOk(Info(None))
           ELSE IF ~IsBulk(array, 2) THEN CmdErr
           ELSE IF to_lowercase(array[2].s) = to_lowercase(T_REPLICATION)
                THEN CmdOk(Info(Some("Replication")))
                ELSE CmdErr
      [] command = to_lowercase(T_REPLCONF) ->
           IF ~IsBulk(array, 2) \/ ~IsBulk(array, 3) THEN CmdErr
           ELSE ReplConfMode_try_from(array[2].s, array[3].s)
      [] command = to_lowercase(T_PSYNC) ->
           IF ~IsBulk(array, 2) \/ ~IsBulk(array, 3) THEN CmdErr
           ELSE LET repl_offset == parse_i64(array[3].s)
                IN  IF repl_offset.ok THEN CmdOk(PSync(array[2].s, repl_offset.v))
                    ELSE CmdErr
      [] OTHER -> CmdPanic

\* impl From<ReplConfMode> for Vec<Resp>
ReplConfMode_into(mode) ==
    CASE mode.m = "ListeningPort" ->
              <<BulkString(T_LISTENING_PORT), BulkString(to_string(mode.port))>>
      [] mode.m = "Capability" -> <<BulkString(T_CAPA), BulkString(mode.text)>>
      [] mode.m = "GetAck" -> <<BulkString(T_GETACK), BulkString(mode.text)>>
      [] mode.m = "Ack" -> <<BulkString(T_ACK), BulkString(to_string(mode.offset))>>

\* impl From<RedisCommands> for Resp
Resp_from(val) ==
    CASE val.op = "Echo" -> Array(<<BulkString(T_ECHO), BulkString(val.text)>>)
      [] val.op = "Ping" -> Array(<<BulkString(T_PING)>>)
      [] val.op = "Set" ->
           Array(<<BulkString(T_SET), BulkString(val.key), BulkString(val.value)>>
                 \o (IF val.expire.some
                     THEN <<BulkString(T_PX), BulkString(to_string(val.expire.v))>>
                     ELSE <<>>))
      [] val.op = "Get" -> Array(<<BulkString(T_GET), BulkString(val.key)>>)
      [] val.op = "Info" ->
           Array(<<BulkString(T_INFO)>>
                 \o (IF val.section.some THEN <<BulkString(T_REPLICATION)>> ELSE <<>>))
      [] val.op = "ReplConf" -> Array(<<BulkString(T_REPLCONF)>> \o ReplConfMode_into(val.mode))
      [] val.op = "PSync" ->
           Array(<<BulkString(T_PSYNC), BulkString(val.repl_id),
                   BulkString(to_string(val.repl_offset))>>)
      [] val.op = "Wait" ->
           Array(<<BulkString(T_WAIT), BulkString(to_string(val.num_replicas)),
                   BulkString(to_string(val.timeout))>>)

\* The bytes a command is sent as.
CommandBytes(c) == encode_to_bytes(Resp_from(c))

(***************************************************************************)
(* main.rs: bounds and program constants                                   *)
(***************************************************************************)
\* commands each client connection may issue
MaxCmds == 2

\* commands all client connections together may issue
MaxTotal == 3

\* clock ticks (each advances the clock by one poll interval)
MaxTicks == 1

\* thread::sleep(Duration::from_millis(20)) of the WAIT poll loop
POLL_MS == 20

\* the client connections of Spec
TwoClients == {"c1", "c2"}

\* the client connections of SpecRace
ThreeClients == {"c1", "c2", "c3"}

Followers == {"f1", "f2"}

Key == <<"k">>

\* the SET command each client connection sends in Spec (frames of 27 and 28 bytes)
SetCmd(c) == IF c = "c1" THEN Set(Key, <<"a">>, None) ELSE Set(Key, <<"b", "b">>, None)

\* followers whose socket may close
MaxGone == 1

\* commands read on the client connections plus PSYNCs answered
MaxLoad == 4

WaitKs == {1, 2}

WaitTs == {0, POLL_MS}

REPL_ID == <<"8", "3", "7", "1", "b", "4", "f", "b", "1", "1", "5", "5", "b", "7", "1", "f", "4", "a", "0", "4", "d", "3", "e", "1", "b", "c", "3", "e", "1", "8", "c", "4", "a", "9", "9", "0", "a", "e", "e", "b">>

T_PONG == <<"P", "O", "N", "G">>

T_OK == <<"O", "K">>

T_FULLRESYNC == <<"F", "U", "L", "L", "R", "E", "S", "Y", "N", "C">>

GetAckCmd == ReplConf(GetAck(<<"*">>))

(***************************************************************************)
(* main.rs: the keyspace (redis_map) and the commands that touch no socket *)
(* but the caller's                                                        *)
(***************************************************************************)
Absent == [present |-> FALSE]

\* struct Value, as HashMap::insert stores it (lines 361-368 and 286-293)
Value(cmd, time) ==
    [present |-> TRUE, value |-> cmd.value, expire |-> cmd.expire, timestamp |-> time]

map_insert(map, cmd, time) == [map EXCEPT ![cmd.key] = Value(cmd, time)]

\* variant: an entry is kept until the time since its timestamp exceeds the expiry
not_expired_inclusive(entry, time) ==
    IF entry.expire.some /\ time >= entry.timestamp
    THEN time - entry.timestamp <= entry.expire.v
    ELSE TRUE

\* the filter closure of GET: an entry with an expiry is kept while the time
\* since its timestamp is below the expiry; duration_since fails when the clock
\* reads earlier than the timestamp, and the entry is kept.
not_expired(entry, time) ==
    IF entry.expire.some /\ time >= entry.timestamp
    THEN time - entry.timestamp < entry.expire.v
    ELSE TRUE

get_reply(map, key, time) ==
    IF key \in DOMAIN map /\ map[key].present /\ not_expired(map[key], time)
    THEN BulkString(map[key].value)
    ELSE NullBulkString

\* ServerType::encode_to_info_string, Master arm
encode_to_info_string(offset) ==
    <<"r", "o", "l", "e", ":", "m", "a", "s", "t", "e", "r">> \o CRLF \o <<"m", "a", "s", "t", "e", "r", "_", "r", "e", "p", "l", "i", "d", ":">> \o REPL_ID \o CRLF \o <<"m", "a", "s", "t", "e", "r", "_", "r", "e", "p", "l", "_", "o", "f", "f", "s", "e", "t", ":">> \o to_string(offset)

\* handle_command for the commands that only reply
simple_reply(cmd, map, offset, time) ==
    CASE cmd.op = "Echo" -> SimpleString(cmd.text)
      [] cmd.op = "Ping" -> SimpleString(T_PONG)
      [] cmd.op = "Get" -> get_reply(map, cmd.key, time)
      [] cmd.op = "Info" -> BulkString(encode_to_info_string(offset))
      [] cmd.op = "ReplConf" -> SimpleString(T_OK)

(***************************************************************************)
(* Spec: the leader and its followers.  Sockets carry whole frames.        *)
(***************************************************************************)
VARIABLES
    now,               \* SystemTime::now(), in milliseconds
    redis_map,         \* the leader's keyspace
    repl_offset,       \* MasterStatus.repl_offset
    repl_data_offset,  \* MasterStatus.repl_data_offset
    replicas_data,     \* MasterStatus.replicas_data: <<[stream, latest_offset]>>
    th,                \* per client connection: the handle_client thread and its locals
    last_reply,        \* per client connection: the last reply written to its socket
    lpc,               \* per follower connection: the leader thread serving it
    fpc,               \* per follower: its connect_master worker
    ack_offset,        \* per follower: connect_master's ack_offset
    fmap,              \* per follower: its keyspace
    stream,            \* per follower: frames written by the leader, not yet read
    acks,              \* per follower: frames written by the follower, not yet read
    broken,            \* per follower: its socket is closed, writes to it fail
    commit_log,        \* history: the SETs in the order they were written to redis_map
    sent_log,          \* history, per follower: the SETs in the order written to its socket
    completed_max,     \* history: the largest data offset produced by a SET already answered
    \* SpecSession: one client connection of the leader, byte by byte
    cwire,             \* bytes the client wrote that no socket read has returned yet
    sbuf,              \* the BufReader of handle_client: bytes read and not consumed
    spc,               \* the handle_client thread: "open", "closed" (returned), "panicked"
    csent,             \* history: the commands the client wrote, in order
    dispatched,        \* history: the commands handed to handle_command, with the time
    sreplies,          \* history: the replies written to the client's socket, in order
    sspins,            \* history: passes of handle_client's loop that changed nothing
    \* SpecFollower: the connect_master worker of a follower, byte by byte
    mwire,             \* bytes the leader wrote that no socket read has returned yet
    wbuf,              \* the BufReader of connect_master
    wpc,               \* the worker: awaiting a handshake reply, "streaming", "stopped", ...
    wack,              \* connect_master's ack_offset
    wmap,              \* the follower's keyspace
    wsent,             \* history: the frames the worker wrote to the leader, in order
    wrecv,             \* history: the handshake replies the worker accepted, in order
    blob_left,         \* history: bytes written before the stream and not taken in
                       \* when the streaming loop was entered
    psent,             \* the peer: how many handshake replies it has written
    pstream,           \* history: the commands the leader wrote after the snapshot
    preported,         \* history: the offset of the +FULLRESYNC the leader wrote (-1: none)
    wdecoded,          \* history: bytes of the frames decoded in the streaming loop
    \* Spec: the lock of the role state (Mutex<ServerStatus>)
    role_lock,         \* "free", or the client connection whose thread holds it
    \* SpecInbound: handle_replica_commands on one follower's socket, byte by byte
    iwire,             \* bytes the follower wrote that no socket read has returned yet
    ipc,               \* the replica-inbound worker: "open", "closed", "panicked"
    isent,             \* history: the commands the follower wrote, in order
    \* SpecCodec: one call of the codec or of the command model
    cin,               \* the input of the call
    cout               \* its result ("none" before the call)

sessionVars == <<cwire, sbuf, spc, csent, dispatched, sreplies, sspins>>

workerVars ==
    <<mwire, wbuf, wpc, wack, wmap, wsent, wrecv, blob_left, psent, pstream, preported,
      wdecoded>>

inboundVars == <<iwire, ipc, isent>>

codecVars == <<cin, cout>>

\* what only SpecInbound and SpecCodec use
asideVars == <<inboundVars, codecVars>>

vars == <<now, redis_map, repl_offset, repl_data_offset, replicas_data, th, last_reply,
          lpc, fpc, ack_offset, fmap, stream, acks, broken, commit_log, sent_log,
          completed_max, role_lock, sessionVars, workerVars, asideVars>>

\* the client connections accepted (lines 146-159)
Clients == DOMAIN th

leaderVars == <<redis_map, repl_offset, repl_data_offset, replicas_data, role_lock>>

followerVars == <<lpc, fpc, ack_offset, fmap, stream, acks, broken>>

historyVars == <<commit_log, sent_log, completed_max>>

Idle ==
    [pc |-> "idle", cmd |-> Ping, start_time |-> 0, replica_streams |-> <<>>,
     master_data_offset |-> 0, last_replica_oks |-> 0, replica_oks |-> 0, i |-> 0,
     emitted |-> 0, sleep_from |-> 0]

\* no byte-level session runs
SessionOff ==
    /\ cwire = <<>>
    /\ sbuf = <<>>
    /\ spc = "off"
    /\ csent = <<>>
    /\ dispatched = <<>>
    /\ sreplies = <<>>
    /\ sspins = 0

\* no byte-level follower worker runs
WorkerOff ==
    /\ mwire = <<>>
    /\ wbuf = <<>>
    /\ wpc = "off"
    /\ wack = 0
    /\ wmap = [k \in {Key} |-> Absent]
    /\ wsent = <<>>
    /\ wrecv = <<>>
    /\ blob_left = 0
    /\ psent = 0
    /\ pstream = <<>>
    /\ preported = 0 - 1
    /\ wdecoded = 0

\* no byte-level replica-inbound worker runs, and no codec call is made
AsideOff ==
    /\ iwire = <<>>
    /\ ipc = "off"
    /\ isent = <<>>
    /\ cin = [kind |-> "none"]
    /\ cout = [st |-> "none"]

\* the leader after main() set it up, but for its registry and the follower
\* connections
LeaderBase ==
    /\ now = 0
    /\ role_lock = "free"
    /\ redis_map = [k \in {Key} |-> Absent]
    /\ repl_offset = 0
    /\ repl_data_offset = 0
    /\ th = [c \in TwoClients |->
               [t |-> Idle,          \* the thread: where it is, its locals
                issued |-> 0,        \* commands read from this connection
                op |-> "none",       \* history: the command read last
                set_offset |-> 0,    \* history: where the frame of its last answered SET ends
                set_regs |-> 0]]     \* history: the registry's length at that SET
    /\ last_reply = [c \in TwoClients |-> Empty]
    /\ ack_offset = [f \in Followers |-> 0]
    /\ fmap = [f \in Followers |-> [k \in {Key} |-> Absent]]
    /\ stream = [f \in Followers |-> <<>>]
    /\ acks = [f \in Followers |-> <<>>]
    /\ broken = [f \in Followers |-> FALSE]
    /\ commit_log = <<>>
    /\ sent_log = [f \in Followers |-> <<>>]
    /\ completed_max = 0

\* the leader after main() set it up: no connection yet
LeaderInit ==
    /\ LeaderBase
    /\ replicas_data = <<>>
    /\ lpc = [f \in Followers |-> "psync"]
    /\ fpc = [f \in Followers |-> "psync_sent"]

Init == LeaderInit /\ SessionOff /\ WorkerOff /\ AsideOff

Max(a, b) == IF a >= b THEN a ELSE b

\* what the run has taken in so far: the commands read and the PSYNCs answered
Load == th["c1"].issued + th["c2"].issued + Cardinality({f \in Followers : lpc[f] # "psync"})

\* Connection c reads its next command.  The two client connections run the same
\* code: c1 is the one whose first command is read first.
CanIssue(c) ==
    /\ th[c].t.pc = "idle"
    /\ th[c].issued < MaxCmds
    /\ c \in TwoClients
       => /\ th["c1"].issued + th["c2"].issued < MaxTotal
          /\ Load < MaxLoad
          /\ c = "c2" => th["c1"].issued > 0

\* the thread of connection c goes back to fill_buf after writing `reply`
Replied(c, reply) ==
    /\ th' = [th EXCEPT ![c].t = Idle]
    /\ last_reply' = [last_reply EXCEPT ![c] = reply]

\* handle_command returned Err (a failed write_all): handle_client returns
Failed(c) == th' = [th EXCEPT ![c].t = [Idle EXCEPT !.pc = "failed"]]

\* The clock is read by WAIT alone (no entry of this specification carries an
\* expiry), and WAIT reads only the time since it started: the clock advances
\* while a WAIT runs.
Tick ==
    /\ UNCHANGED <<sessionVars, workerVars, asideVars>>
    /\ now < MaxTicks * POLL_MS
    /\ \E c \in Clients : th[c].t.pc \in {"wait_send", "wait_account", "wait_poll", "wait_sleep"}
    /\ now' = now + POLL_MS
    /\ UNCHANGED <<leaderVars, th, last_reply, followerVars, historyVars>>

\* PING, ECHO, GET, INFO, REPLCONF on a client connection (lines 358-359, 385-415, 516)
OtherCmds == {Ping, Echo(<<"h">>), Get(Key), Info(None), ReplConf(Capability(<<"x">>))}

ClientOther(c) ==
    /\ UNCHANGED <<sessionVars, workerVars, asideVars>>
    /\ CanIssue(c)
    /\ \E cmd \in OtherCmds :
         /\ cmd.op = "Info" => role_lock = "free"
         /\ th' = [th EXCEPT ![c].issued = @ + 1, ![c].op = cmd.op]
         /\ last_reply' = [last_reply EXCEPT
                             ![c] = simple_reply(cmd, redis_map, repl_offset, now)]
    /\ UNCHANGED <<now, leaderVars, followerVars, historyVars>>

----------------------------------------------------------------------------
\* SET on the leader, lines 360-384

\* lines 361-368: the keyspace is written under the keyspace lock alone
SetInsert(c) ==
    /\ UNCHANGED <<sessionVars, workerVars, asideVars>>
    /\ CanIssue(c)
    /\ redis_map' = map_insert(redis_map, SetCmd(c), now)
    /\ th' = [th EXCEPT ![c].t.pc = "set_role", ![c].t.cmd = SetCmd(c), ![c].issued = @ + 1,
                        ![c].op = "Set"]
    /\ commit_log' = Append(commit_log, <<c, th[c].issued + 1>>)
    /\ UNCHANGED <<now, repl_offset, repl_data_offset, replicas_data, role_lock, last_reply,
                   followerVars, sent_log, completed_max>>

\* The registry entries a broadcast loop reaches: all of them, or those before
\* the first whose write_all fails (the `?` leaves the loop there).
Reached(streams) ==
    {i \in 1..Len(streams) : \A j \in 1..i : ~broken[streams[j]]}

RegistryStreams == [i \in 1..Len(replicas_data) |-> replicas_data[i].stream]

WrittenTo(streams, f) == \E i \in Reached(streams) : streams[i] = f

\* variant: repl_data_offset assigned before the frame's length is added
data_offset_before_add(offset, len) == offset

\* line 373, after line 372 added the frame's length to repl_offset
data_offset_after_set(offset, len) == offset + len

\* lines 369-373: the role lock is taken (the guard of line 369 lives to the end
\* of the match, line 381) and the offsets are advanced
SetLock(c) ==
    /\ UNCHANGED <<sessionVars, workerVars, asideVars>>
    /\ th[c].t.pc = "set_role"
    /\ role_lock = "free"
    /\ role_lock' = c
    /\ LET len == Len(CommandBytes(th[c].t.cmd))
       IN  /\ repl_offset' = repl_offset + len
           /\ repl_data_offset' = data_offset_after_set(repl_offset, len)
    /\ th' = [th EXCEPT ![c].t.pc = "set_write"]
    /\ UNCHANGED <<now, redis_map, replicas_data, last_reply, followerVars, historyVars>>

\* lines 374-384 and 516: still under the role lock the frame is written to every
\* follower; the lock is released at the end of the match (or by the `?` of line
\* 375); then +OK to the client
SetBroadcast(c) ==
    /\ UNCHANGED <<sessionVars, workerVars, asideVars>>
    /\ th[c].t.pc = "set_write"
    /\ role_lock = c
    /\ role_lock' = "free"
    /\ LET set_command == th[c].t.cmd
       IN  /\ stream' = [f \in Followers |->
                           IF WrittenTo(RegistryStreams, f)
                           THEN Append(stream[f], set_command) ELSE stream[f]]
           /\ sent_log' = [f \in Followers |->
                           IF WrittenTo(RegistryStreams, f)
                           THEN Append(sent_log[f], <<c, th[c].issued>>) ELSE sent_log[f]]
           /\ IF Reached(RegistryStreams) = 1..Len(replicas_data)
              THEN /\ th' = [th EXCEPT ![c].t = Idle, ![c].set_offset = repl_offset,
                                         ![c].set_regs = Len(replicas_data)]
                   /\ last_reply' = [last_reply EXCEPT ![c] = SimpleString(T_OK)]
                   /\ completed_max' = Max(completed_max, repl_offset)
              ELSE /\ Failed(c)
                   /\ UNCHANGED <<last_reply, completed_max>>
    /\ UNCHANGED <<now, redis_map, repl_offset, repl_data_offset, replicas_data, lpc, fpc,
                   ack_offset, fmap, acks, broken, commit_log>>

----------------------------------------------------------------------------
\* WAIT on the leader, lines 436-485

\* variant: the test of line 449 inverted
wait_short_circuit_inverted(master_data_offset) == master_data_offset # 0

\* lines 449-450
wait_short_circuit(master_data_offset) == master_data_offset = 0

\* lines 437-451: the snapshot under the role lock, and the short circuit
WaitSnapshot(c) ==
    /\ UNCHANGED <<sessionVars, workerVars, asideVars>>
    /\ CanIssue(c)
    /\ role_lock = "free"
    /\ \E k \in WaitKs, t \in WaitTs :
         IF wait_short_circuit(repl_data_offset)
         THEN /\ th' = [th EXCEPT ![c].issued = @ + 1, ![c].op = "Wait"]
              /\ last_reply' = [last_reply EXCEPT ![c] = Integer(Len(RegistryStreams))]
         ELSE /\ th' = [th EXCEPT ![c].issued = @ + 1, ![c].op = "Wait",
                          ![c].t = [Idle EXCEPT
                                      !.pc = IF replicas_data = <<>> THEN "wait_account"
                                             ELSE "wait_send",
                                      !.cmd = Wait(k, t),
                                      !.start_time = now,
                                      !.replica_streams = RegistryStreams,
                                      !.master_data_offset = repl_data_offset,
                                      !.i = 1]]
              /\ UNCHANGED last_reply
    /\ UNCHANGED <<now, leaderVars, followerVars, historyVars>>

\* lines 456-459: one pass of the loop, no lock held
WaitSendGetAck(c) ==
    /\ UNCHANGED <<sessionVars, workerVars, asideVars>>
    /\ th[c].t.pc = "wait_send"
    /\ LET f == th[c].t.replica_streams[th[c].t.i]
       IN  IF broken[f]
           THEN /\ Failed(c)
                /\ UNCHANGED stream
           ELSE /\ stream' = [stream EXCEPT ![f] = Append(@, GetAckCmd)]
                /\ th' = [th EXCEPT
                            ![c].t.i = @ + 1,
                            ![c].t.emitted = @ + 1,
                            ![c].t.pc = IF th[c].t.i = Len(th[c].t.replica_streams)
                                        THEN "wait_account" ELSE "wait_send"]
    /\ UNCHANGED <<now, leaderVars, last_reply, lpc, fpc, ack_offset, fmap, acks, broken,
                   historyVars>>

\* lines 460-464, under the role lock
WaitAccount(c) ==
    /\ UNCHANGED <<sessionVars, workerVars, asideVars>>
    /\ th[c].t.pc = "wait_account"
    /\ role_lock = "free"
    /\ repl_offset' = repl_offset + Len(CommandBytes(GetAckCmd))
    /\ th' = [th EXCEPT ![c].t.pc = "wait_poll"]
    /\ UNCHANGED <<now, redis_map, repl_data_offset, replicas_data, role_lock, last_reply,
                   followerVars, historyVars>>

\* `>=` of two u64 (line 470).  A u64 is held as the integer with the same 64
\* bits read as an i64: the values from 2^63 up are the negative integers, and
\* they are above every value below 2^63.
u64_ge(a, b) == IF (a < 0) = (b < 0) THEN a >= b ELSE a < 0

\* lines 466-474: the followers whose latest_offset has reached the target
CountOks(target) ==
    Cardinality({i \in 1..Len(replicas_data) :
                   u64_ge(replicas_data[i].latest_offset, target)})

\* lines 475-479: what one poll decides
wait_poll(replica_oks, num_replicas, timeout, elapsed, last_replica_oks) ==
    IF replica_oks >= num_replicas THEN [brk |-> TRUE, v |-> replica_oks]
    ELSE IF timeout <= elapsed THEN [brk |-> TRUE, v |-> last_replica_oks]
    ELSE [brk |-> FALSE, v |-> 0]

\* lines 465-483: one poll
WaitPoll(c) ==
    /\ UNCHANGED <<sessionVars, workerVars, asideVars>>
    /\ th[c].t.pc = "wait_poll"
    /\ role_lock = "free"
    /\ LET replica_oks == CountOks(th[c].t.master_data_offset)
           r == wait_poll(replica_oks, th[c].t.cmd.num_replicas, th[c].t.cmd.timeout,
                          now - th[c].t.start_time, th[c].t.last_replica_oks)
       IN  IF r.brk
           THEN Replied(c, Integer(r.v))
           ELSE /\ th' = [th EXCEPT ![c].t.pc = "wait_sleep",
                                    ![c].t.replica_oks = replica_oks,
                                    ![c].t.sleep_from = now]
                /\ UNCHANGED last_reply
    /\ UNCHANGED <<now, leaderVars, followerVars, historyVars>>

\* lines 480-481: the sleep is over
WaitWake(c) ==
    /\ UNCHANGED <<sessionVars, workerVars, asideVars>>
    /\ th[c].t.pc = "wait_sleep"
    /\ now >= th[c].t.sleep_from + POLL_MS
    /\ th' = [th EXCEPT ![c].t.pc = "wait_poll",
                        ![c].t.last_replica_oks = th[c].t.replica_oks,
                        ![c].t.replica_oks = 0,
                        ![c].t.sleep_from = 0]
    /\ UNCHANGED <<now, leaderVars, last_reply, followerVars, historyVars>>

----------------------------------------------------------------------------
\* A follower connection on the leader: PSYNC and the registration

\* handle_command lines 416-433: the offset is read under the role lock, the lock
\* is released, then +FULLRESYNC and the snapshot are written.  The follower
\* worker sent PING, REPLCONF, REPLCONF and PSYNC before (SpecFollower follows
\* these steps byte by byte); it takes the offset of +FULLRESYNC as its
\* ack_offset (line 236) before it reads anything else of its stream.
PSyncReply(f) ==
    /\ UNCHANGED <<sessionVars, workerVars, asideVars>>
    /\ lpc[f] = "psync"
    /\ Load < MaxLoad
    /\ role_lock = "free"
    /\ IF broken[f]
       THEN /\ lpc' = [lpc EXCEPT ![f] = "failed"]
            /\ UNCHANGED <<ack_offset, fpc>>
       ELSE /\ lpc' = [lpc EXCEPT ![f] = "register"]
            /\ ack_offset' = [ack_offset EXCEPT ![f] = repl_offset]
            /\ fpc' = [fpc EXCEPT ![f] = "streaming"]
    /\ UNCHANGED <<now, leaderVars, th, last_reply, fmap, stream, acks, broken, historyVars>>

\* handle_client lines 323-337: the role lock is taken again, the replica-inbound
\* worker is spawned with the entry's index and the entry is pushed
\* (the two follower connections run the same code: f1 is the one pushed first)
Register(f) ==
    /\ UNCHANGED <<sessionVars, workerVars, asideVars>>
    /\ lpc[f] = "register"
    /\ f = "f2" => lpc["f1"] = "promoted"
    /\ role_lock = "free"
    /\ replicas_data' = Append(replicas_data, [stream |-> f, latest_offset |-> 0])
    /\ lpc' = [lpc EXCEPT ![f] = "promoted"]
    /\ UNCHANGED <<now, redis_map, repl_offset, repl_data_offset, role_lock, th, last_reply, fpc,
                   ack_offset, fmap, stream, acks, broken, historyVars>>

\* the index handle_replica_commands was spawned with
ReplicaIndex(f) == CHOOSE i \in 1..Len(replicas_data) : replicas_data[i].stream = f

\* variant: the frame's bytes are added before the frame is applied
reported_offset_after_add(offset, frame_len) == offset + frame_len

\* The ACK offset the follower reports for a GETACK: handle_master_command is
\* called with ack_offset (line 261) before line 270 adds the frame's bytes.
reported_offset(offset, frame_len) == offset

\* variant: the SET arm missing, a SET of the stream is ignored like the rest
master_command_map_without_set(command, map, time) == map

\* handle_master_command (lines 275-304): the keyspace after `command`, and the
\* commands written to the leader
master_command_map(command, map, time) ==
    IF command.op = "Set" THEN map_insert(map, command, time) ELSE map

master_command_writes(command, offset) ==
    IF command.op = "ReplConf" /\ command.mode.m = "GetAck"
    THEN <<ReplConf(Ack(offset))>>
    ELSE <<>>

\* connect_master lines 251-272 and handle_master_command: one frame of the stream
FollowerApply(f) ==
    /\ UNCHANGED <<sessionVars, workerVars, asideVars>>
    /\ fpc[f] = "streaming"
    /\ stream[f] # <<>>
    /\ LET frame == Head(stream[f])
           len == Len(CommandBytes(frame))
       IN  /\ ack_offset' = [ack_offset EXCEPT ![f] = @ + len]
           /\ fmap' = [fmap EXCEPT ![f] = master_command_map(frame, @, now)]
           /\ acks' = [acks EXCEPT ![f] =
                         @ \o master_command_writes(frame,
                                                    reported_offset(ack_offset[f], len))]
    /\ stream' = [stream EXCEPT ![f] = Tail(@)]
    /\ UNCHANGED <<now, leaderVars, th, last_reply, lpc, fpc, broken, historyVars>>

\* What handle_replica_commands keeps of one socket read: line 526 makes a new
\* BufReader in every pass of the loop, so the frames a read returned beyond the
\* first are dropped with the old one.
inbound_rest(frames, nread) == SubSeq(frames, nread + 1, Len(frames))

\* handle_replica_commands lines 525-552: one pass; the read returns `nread` frames
ReplicaInbound(f) ==
    /\ UNCHANGED <<sessionVars, workerVars, asideVars>>
    /\ lpc[f] = "promoted"
    /\ acks[f] # <<>>
    /\ role_lock = "free"
    /\ \E nread \in 1..Len(acks[f]) :
         /\ acks' = [acks EXCEPT ![f] = inbound_rest(@, nread)]
         /\ replicas_data' = [replicas_data EXCEPT
                                ![ReplicaIndex(f)].latest_offset = Head(acks[f]).mode.offset]
    /\ UNCHANGED <<now, redis_map, repl_offset, repl_data_offset, role_lock, th, last_reply,
                   lpc, fpc, ack_offset, fmap, stream, broken, historyVars>>

\* The follower process ends: its socket is closed, what it had not read of its
\* stream is lost and its keyspace is no more.  What it wrote before can still be
\* read by the leader.
FollowerGone(f) ==
    /\ UNCHANGED <<sessionVars, workerVars, asideVars>>
    /\ ~broken[f]
    /\ Cardinality({g \in Followers : broken[g]}) < MaxGone
    /\ broken' = [broken EXCEPT ![f] = TRUE]
    /\ fpc' = [fpc EXCEPT ![f] = "gone"]
    /\ stream' = [stream EXCEPT ![f] = <<>>]
    /\ fmap' = [fmap EXCEPT ![f] = [k \in {Key} |-> Absent]]
    /\ ack_offset' = [ack_offset EXCEPT ![f] = 0]
    /\ UNCHANGED <<now, leaderVars, th, last_reply, lpc, acks, historyVars>>

Next ==
    \/ Tick
    \/ \E c \in TwoClients :
         \/ ClientOther(c)
         \/ SetInsert(c)
         \/ SetLock(c)
         \/ SetBroadcast(c)
         \/ WaitSnapshot(c)
         \/ WaitSendGetAck(c)
         \/ WaitAccount(c)
         \/ WaitPoll(c)
         \/ WaitWake(c)
    \/ \E f \in Followers :
         \/ PSyncReply(f)
         \/ Register(f)
         \/ FollowerApply(f)
         \/ ReplicaInbound(f)
         \/ FollowerGone(f)

Spec == Init /\ [][Next]_vars

(***************************************************************************)
(* SpecRace: the leader with follower f1 registered and three client       *)
(* connections, from the state in which c1's SET k a has been broadcast,   *)
(* consumed by f1 and answered, and c1 and c2 have each sent a WAIT whose   *)
(* thread has taken its snapshot (lines 437-451), both with the same        *)
(* arguments.  c3 sends SETs and WAITs as it likes.                        *)
(* No follower connects or leaves.                                         *)
(***************************************************************************)
\* the thread of a WAIT after its snapshot, at the state RaceInit describes
Snapshotted(cmd) ==
    [Idle EXCEPT !.pc = "wait_send", !.cmd = cmd, !.replica_streams = <<"f1">>,
                 !.master_data_offset = Len(CommandBytes(SetCmd("c1"))), !.i = 1]

RaceInit ==
    /\ now = 0
    /\ role_lock = "free"
    /\ redis_map = map_insert([k \in {Key} |-> Absent], SetCmd("c1"), 0)
    /\ repl_offset = Len(CommandBytes(SetCmd("c1")))
    /\ repl_data_offset = Len(CommandBytes(SetCmd("c1")))
    /\ replicas_data = <<[stream |-> "f1", latest_offset |-> 0]>>
    /\ \E k \in WaitKs, t \in WaitTs :
         th = [c \in ThreeClients |->
               [t |-> IF c = "c3" THEN Idle ELSE Snapshotted(Wait(k, t)),
                issued |-> CASE c = "c1" -> 2 [] c = "c2" -> 1 [] c = "c3" -> 0,
                op |-> IF c = "c3" THEN "none" ELSE "Wait",
                set_offset |-> IF c = "c1" THEN Len(CommandBytes(SetCmd("c1"))) ELSE 0,
                set_regs |-> IF c = "c1" THEN 1 ELSE 0]]
    /\ last_reply = [c \in ThreeClients |-> IF c = "c1" THEN SimpleString(T_OK) ELSE Empty]
    /\ lpc = [f \in Followers |-> IF f = "f1" THEN "promoted" ELSE "psync"]
    /\ fpc = [f \in Followers |-> IF f = "f1" THEN "streaming" ELSE "psync_sent"]
    /\ ack_offset = [f \in Followers |->
                       IF f = "f1" THEN Len(CommandBytes(SetCmd("c1"))) ELSE 0]
    /\ fmap = [f \in Followers |->
                 IF f = "f1" THEN map_insert([k \in {Key} |-> Absent], SetCmd("c1"), 0)
                 ELSE [k \in {Key} |-> Absent]]
    /\ stream = [f \in Followers |-> <<>>]
    /\ acks = [f \in Followers |-> <<>>]
    /\ broken = [f \in Followers |-> FALSE]
    /\ commit_log = <<<<"c1", 1>>>>
    /\ sent_log = [f \in Followers |-> IF f = "f1" THEN <<<<"c1", 1>>>> ELSE <<>>]
    /\ completed_max = Len(CommandBytes(SetCmd("c1")))
    /\ SessionOff
    /\ WorkerOff
    /\ AsideOff

RaceNext ==
    \/ Tick
    \/ SetInsert("c3")
    \/ SetLock("c3")
    \/ SetBroadcast("c3")
    \/ WaitSnapshot("c3")
    \/ \E c \in ThreeClients :
         \/ WaitSendGetAck(c)
         \/ WaitAccount(c)
         \/ WaitPoll(c)
         \/ WaitWake(c)
    \/ FollowerApply("f1")
    \/ ReplicaInbound("f1")

SpecRace == RaceInit /\ [][RaceNext]_vars

(***************************************************************************)
(* Properties of Spec                                                      *)
(***************************************************************************)
Position(log, id) == CHOOSE i \in 1..Len(log) : log[i] = id

Range(seq) == {seq[i] : i \in 1..Len(seq)}

NoSetRunning == \A c \in Clients : th[c].t.pc \notin {"set_role", "set_write"}

WaitPcs == {"wait_send", "wait_account", "wait_poll", "wait_sleep"}

\* connection c read a command in this step
Reads(c) == th'[c].issued = th[c].issued + 1

\* C1: the SETs of the client connections are written to each follower's socket
\* in the order in which they were written to the leader's keyspace; hence a
\* follower that was sent the SET written last, and has applied all it was sent,
\* holds the leader's value of the key.
C1_BroadcastInCommitOrder ==
    \A f \in Followers :
      /\ \A i, j \in 1..Len(sent_log[f]) :
           i < j => Position(commit_log, sent_log[f][i]) < Position(commit_log, sent_log[f][j])
      /\ ( /\ NoSetRunning
           /\ commit_log # <<>>
           /\ commit_log[Len(commit_log)] \in Range(sent_log[f])
           /\ fpc[f] = "streaming"
           /\ stream[f] = <<>> )
         => fmap[f][Key].value = redis_map[Key].value

\* C3: the reply of a WAIT that went past the short circuit is the number of
\* followers whose latest_offset is at or past the target when the last poll
\* looks, whether it ends by reaching k or by the timeout (a timeout of 0 too).
C3_WaitRepliesObservedCount ==
    [][\A c \in Clients :
         (th[c].t.pc = "wait_poll" /\ th'[c].t.pc = "idle")
         => last_reply'[c] = Integer(CountOks(th[c].t.master_data_offset))]_vars

\* every registered follower is alive and streaming, has read all the leader
\* wrote to it, and the leader has read all its answers
AllAnswered ==
    \A i \in 1..Len(replicas_data) :
      LET f == replicas_data[i].stream
      IN  ~broken[f] /\ fpc[f] = "streaming" /\ stream[f] = <<>> /\ acks[f] = <<>>

\* C4: with n followers registered when a connection's SET is broadcast, the
\* WAIT(n, t) that follows the SET on that connection counts n once every
\* follower has answered every GETACK and the leader has read every answer
\* before the deadline, whatever the other connections and the registrations
\* did in between.
C4_WaitAfterSetCountsAll ==
    \A c \in Clients :
      ( /\ th[c].t.pc = "wait_poll"
        /\ th[c].set_offset > 0
        /\ th[c].set_regs = Len(replicas_data)
        /\ th[c].t.cmd.num_replicas = Len(replicas_data)
        /\ now - th[c].t.start_time < th[c].t.cmd.timeout
        /\ Len(th[c].t.replica_streams) = Len(replicas_data)
        /\ \A d \in Clients \ {c} : th[d].t.pc \in {"idle", "failed"}
        /\ AllAnswered )
      => CountOks(th[c].t.master_data_offset) >= th[c].t.cmd.num_replicas

TargetTaken(c) == IF th'[c].t.pc = "idle" THEN 0 ELSE th'[c].t.master_data_offset

\* C6: the target a WAIT snapshots is at or past the end of the frame of every
\* SET that was answered before the snapshot, its own connection's SET included.
C6_WaitTargetCoversCompletedSets ==
    [][\A c \in Clients :
         (Reads(c) /\ th'[c].op = "Wait")
         => /\ TargetTaken(c) >= completed_max
            /\ TargetTaken(c) >= th[c].set_offset]_vars

C6_Witness ==
    \E c, d \in Clients :
      /\ c # d
      /\ th[c].t.pc \in WaitPcs
      /\ th[d].set_offset > 0
      /\ th[c].set_offset > 0
      /\ th[c].t.master_data_offset = completed_max
      /\ completed_max = Len(CommandBytes(SetCmd(c))) + Len(CommandBytes(SetCmd(d)))

\* C10: repl_offset never decreases; the step that writes a SET's frame adds the
\* frame's length, a WAIT that wrote GETACK frames adds the GETACK's length by
\* the time its probe is over, and no other step changes repl_offset.
C10_ReplOffsetAccounting ==
    [][/\ repl_offset' >= repl_offset
       /\ \A c \in Clients :
            /\ (th[c].t.pc = "set_role" /\ th'[c].t.pc # "set_role")
               => repl_offset' = repl_offset + Len(CommandBytes(th[c].t.cmd))
            /\ ( /\ th[c].t.pc \in {"wait_send", "wait_account"}
                 /\ th'[c].t.pc \notin {"wait_send", "wait_account"}
                 /\ th[c].t.emitted > 0 )
               => repl_offset' = repl_offset + Len(CommandBytes(GetAckCmd))
       /\ (\A c \in Clients : th[c].t.pc \notin {"set_role", "wait_send", "wait_account"})
          => repl_offset' = repl_offset]_vars

\* the thread of connection c leaves the probe of its WAIT (lines 456-464) in this step
ProbeOver(c) ==
    /\ th[c].t.pc \in {"wait_send", "wait_account"}
    /\ th'[c].t.pc \notin {"wait_send", "wait_account"}

\* C18: a WAIT that went past the short circuit has added the length of one
\* REPLCONF GETACK * frame to repl_offset when its probe is over, and no step of
\* a WAIT changes repl_data_offset, which only a SET changes; the target of a
\* WAIT is repl_data_offset, so WAITs with no SET in between have the same
\* target, and no latest_offset decreases between them.
C18_WaitAddsOneGetAck ==
    [][/\ \A c \in Clients :
            /\ ProbeOver(c) => repl_offset' = repl_offset + Len(CommandBytes(GetAckCmd))
            /\ (Reads(c) /\ th'[c].op = "Wait" /\ th'[c].t.pc # "idle")
               => th'[c].t.master_data_offset = repl_data_offset
       /\ repl_data_offset' # repl_data_offset
          => \E c \in Clients : th[c].t.pc = "set_role" /\ th'[c].t.pc = "set_write"
       /\ \A i \in 1..Len(replicas_data) :
            replicas_data'[i].latest_offset >= replicas_data[i].latest_offset]_vars

\* the next step of the thread of connection c is a write to a follower's socket
\* (lines 375, 458) or the sleep of the poll loop (line 480)
AtBlockingCall(c) ==
    \/ th[c].t.pc = "set_write" /\ replicas_data # <<>>
    \/ th[c].t.pc = "wait_send"
    \/ th[c].t.pc = "wait_sleep"

\* C19: no thread holds the role lock while it writes to a socket or sleeps: WAIT
\* has released it after its snapshot, before it sends GETACK and before each
\* sleep, and the SET broadcast does not write to the followers under it.
C19_NoBlockingUnderRoleLock ==
    \A c \in Clients : AtBlockingCall(c) => role_lock # c

\* the follower at which the write of connection c's thread fails in this step:
\* the first broken one of the registry for a SET (line 375), the one the GETACK
\* loop has come to for a WAIT (line 458)
FailsOn(c) ==
    IF th[c].t.pc = "set_write"
    THEN LET i == CHOOSE i \in 1..Len(replicas_data) :
                     /\ broken[replicas_data[i].stream]
                     /\ \A j \in 1..(i - 1) : ~broken[replicas_data[j].stream]
         IN  replicas_data[i].stream
    ELSE th[c].t.replica_streams[th[c].t.i]

\* C20: when a write to a registered follower's socket has failed the follower
\* is no longer in the registry, so a SET that starts its broadcast with no
\* other write failing in between reaches every follower left and is answered.
C20_FailedFollowerLeavesRegistry ==
    [][\A c \in Clients :
         (th[c].t.pc # "failed" /\ th'[c].t.pc = "failed")
         => \A i \in 1..Len(replicas_data') : replicas_data'[i].stream # FailsOn(c)]_vars

\* the write of connection c's thread to a follower's socket fails in this step
WriteFails(c) == th[c].t.pc # "failed" /\ th'[c].t.pc = "failed"

\* C23: when a write to a follower's socket fails in a SET broadcast or in the
\* GETACK probe of a WAIT, repl_offset has been advanced by the length of the
\* frame attempted: a SET accounts its frame before its first write and a
\* failing write leaves the account as it is; a WAIT whose probe fails accounts
\* the GETACK frame all the same.
C23_FailedWriteIsAccounted ==
    [][\A c \in Clients :
         /\ (th[c].t.pc = "set_role" /\ th'[c].t.pc = "set_write")
            => repl_offset' = repl_offset + Len(CommandBytes(th[c].t.cmd))
         /\ (WriteFails(c) /\ th[c].t.pc = "set_write") => repl_offset' = repl_offset
         /\ (WriteFails(c) /\ th[c].t.pc = "wait_send")
            => repl_offset' = repl_offset + Len(CommandBytes(GetAckCmd))]_vars

\* the bytes of the frames in flight to follower f
StreamBytes(f) == Len(EncodeAll([i \in 1..Len(stream[f]) |-> Resp_from(stream[f][i])]))

\* C24: whenever no SET and no WAIT is in progress, what the leader has written
\* to the socket of a registered follower after the snapshot (what the follower
\* has consumed since the offset of its +FULLRESYNC, and what is in flight) is
\* repl_offset minus that offset: every frame accounted since the offset was
\* read has also been written to the follower.
C24_RegisteredFollowerGetsEveryFrame ==
    (\A c \in Clients : th[c].t.pc \in {"idle", "failed"})
    => \A i \in 1..Len(replicas_data) :
         LET f == replicas_data[i].stream
         IN  ~broken[f] => ack_offset[f] + StreamBytes(f) = repl_offset

\* C28: a WAIT ends with an Integer reply, never without one, and it starts a
\* sleep of its poll loop only while less than its timeout has elapsed since it
\* started, so it answers within one poll interval after the timeout.
C28_WaitEndsWithInteger ==
    [][\A c \in Clients :
         (th[c].op = "Wait" /\ th[c].t.pc \in WaitPcs)
         => /\ th'[c].t.pc # "failed"
            /\ th'[c].t.pc = "idle" => last_reply'[c].t = "Integer"
            /\ th'[c].t.pc = "wait_sleep"
               => th'[c].t.sleep_from - th'[c].t.start_time < th'[c].t.cmd.timeout]_vars

\* C25: a follower that a WAIT counts as caught up has consumed every SET frame
\* the leader accounted at or below the WAIT's target.  While no SET has been
\* accounted since the WAIT's snapshot (its target is the current data_offset)
\* every SET frame written so far is at or below the target, so a follower the
\* poll counts has no SET frame left unread in its stream.
C25_CountedFollowerConsumedSets ==
    \A c \in Clients :
      (th[c].t.pc = "wait_poll" /\ th[c].t.master_data_offset = repl_data_offset)
      => \A i \in 1..Len(replicas_data) :
           u64_ge(replicas_data[i].latest_offset, th[c].t.master_data_offset)
           => \A j \in 1..Len(stream[replicas_data[i].stream]) :
                stream[replicas_data[i].stream][j].op # "Set"

(***************************************************************************)
(* SpecSession: handle_client on one client connection of a leader without *)
(* followers.  The client writes whole frames; a socket read returns any   *)
(* non-empty prefix of what is in flight.                                  *)
(***************************************************************************)
\* commands the client writes before it waits
MaxSessionCmds == 2

\* GETs the client may write beyond MaxSessionCmds
MaxExtraGets == 1

MaxSessionTicks == 3

\* passes of the session loop that change nothing, followed this far
MaxSpins == 1

\* milliseconds per tick of this specification's clock
TickMs == 10

SessionCmds ==
    {Ping, Echo(<<":", "x">>), Get(Key), Set(Key, <<"a">>, None), Set(Key, <<"b">>, Some(20))}

SessionInit ==
    /\ LeaderInit
    /\ WorkerOff
    /\ AsideOff
    /\ cwire = <<>>
    /\ sbuf = <<>>
    /\ spc = "open"
    /\ csent = <<>>
    /\ dispatched = <<>>
    /\ sreplies = <<>>
    /\ sspins = 0

mainVars ==
    <<replicas_data, th, last_reply, lpc, fpc, ack_offset, fmap, stream, acks, broken,
      commit_log, sent_log, completed_max, role_lock, asideVars>>

\* the client writes one frame
ClientSend ==
    /\ spc = "open"
    /\ \E cmd \in SessionCmds :
         /\ \/ Len(csent) < MaxSessionCmds
            \/ cmd.op = "Get" /\ Len(csent) < MaxSessionCmds + MaxExtraGets
         /\ cwire' = cwire \o CommandBytes(cmd)
         /\ csent' = Append(csent, cmd)
    /\ UNCHANGED <<now, redis_map, repl_offset, repl_data_offset, mainVars, workerVars,
                   sbuf, spc, dispatched, sreplies, sspins>>

SessionTick ==
    /\ now < MaxSessionTicks * TickMs
    /\ now' = now + TickMs
    /\ UNCHANGED <<redis_map, repl_offset, repl_data_offset, mainVars, workerVars,
                   sessionVars>>

\* handle_command (lines 357-516) for a command of a client session, with no
\* follower registered: the reply, and the keyspace and offsets after it
session_reply(cmd, map, offset, time) ==
    IF cmd.op = "Set" THEN SimpleString(T_OK) ELSE simple_reply(cmd, map, offset, time)

session_map(cmd, map, time) == IF cmd.op = "Set" THEN map_insert(map, cmd, time) ELSE map

session_offset(cmd, offset) ==
    IF cmd.op = "Set" THEN offset + Len(CommandBytes(cmd)) ELSE offset

\* BufReader::fill_buf (lines 313, 252): what is buffered if there is any, else
\* the `nread` bytes the socket read returns
fill_buf(buf, wire, nread) == IF buf # <<>> THEN buf ELSE SubSeq(wire, 1, nread)

after_fill(buf, wire, nread) ==
    IF buf # <<>> THEN wire ELSE SubSeq(wire, nread + 1, Len(wire))

ReadSizes(buf, wire) == IF buf # <<>> THEN {0} ELSE 1..Len(wire)

\* the thread ends: its socket is closed with it
SessionEnds(how) ==
    /\ spc' = how
    /\ sbuf' = <<>>
    /\ cwire' = <<>>
    /\ UNCHANGED <<now, redis_map, repl_offset, repl_data_offset, dispatched, sreplies,
                   sspins>>

\* lines 341-344 and 263-266: the remainder of a buffer that failed to decode
untokenizable_remainder(bytes) == bytes

\* variant: the reader is emptied, as if a new BufReader were made in every pass
consume_whole(bytes, consumed_bytes) == <<>>

\* BufReader::consume (lines 347, 271): what stays buffered of `bytes`
consume_front(bytes, consumed_bytes) == SubSeq(bytes, consumed_bytes + 1, Len(bytes))

\* handle_client lines 312-348: one pass of the loop
SessionStep ==
    /\ spc = "open"
    /\ sbuf # <<>> \/ cwire # <<>>
    /\ sspins < MaxSpins
    /\ \E nread \in ReadSizes(sbuf, cwire) :
         LET bytes == fill_buf(sbuf, cwire, nread)
             tok == tokenize_bytes(bytes)
             command == RedisCommands_try_from(tok.val)
         IN  CASE tok.st = "panic" -> SessionEnds("panicked")
               [] tok.st = "err" ->
                    \* lines 341-347: the remainder is the whole buffer, so nothing
                    \* is consumed and the next fill_buf returns the same bytes
                    /\ LET remainder == untokenizable_remainder(bytes)
                           consumed_bytes == Len(bytes) - Len(remainder)
                       IN  sbuf' = consume_front(bytes, consumed_bytes)
                    /\ cwire' = after_fill(sbuf, cwire, nread)
                    /\ sspins' = IF sbuf' = sbuf /\ cwire' = cwire THEN sspins + 1 ELSE sspins
                    /\ UNCHANGED <<now, redis_map, repl_offset, repl_data_offset, spc,
                                   dispatched, sreplies>>
               [] tok.st = "ok" /\ command.st = "panic" -> SessionEnds("panicked")
               [] tok.st = "ok" /\ command.st = "err" -> SessionEnds("closed")
               [] tok.st = "ok" /\ command.st = "ok" ->
                    /\ sbuf' = consume_front(bytes, Len(bytes) - Len(tok.remainder))
                    /\ cwire' = after_fill(sbuf, cwire, nread)
                    /\ redis_map' = session_map(command.cmd, redis_map, now)
                    /\ repl_offset' = session_offset(command.cmd, repl_offset)
                    /\ repl_data_offset' =
                         IF command.cmd.op = "Set"
                         THEN session_offset(command.cmd, repl_offset)
                         ELSE repl_data_offset
                    /\ dispatched' = Append(dispatched, [cmd |-> command.cmd, time |-> now])
                    /\ sreplies' = Append(sreplies,
                                          session_reply(command.cmd, redis_map, repl_offset, now))
                    /\ UNCHANGED <<now, spc, sspins>>
    /\ UNCHANGED <<mainVars, workerVars, csent>>

SessionNext == ClientSend \/ SessionTick \/ SessionStep

SpecSession == SessionInit /\ [][SessionNext]_vars

(***************************************************************************)
(* Properties of SpecSession                                               *)
(***************************************************************************)
\* the SET dispatched last before the i-th command, on that command's key (0: none)
LastSetBefore(i) ==
    LET sets == {j \in 1..(i - 1) : /\ dispatched[j].cmd.op = "Set"
                                   /\ dispatched[j].cmd.key = dispatched[i].cmd.key}
    IN  IF sets = {} THEN 0 ELSE CHOOSE j \in sets : \A k \in sets : k <= j

\* C7: a GET of a key whose last SET was at time t, with or without a ttl T, is
\* answered with that SET's value if and only if there is no ttl or the time of
\* the GET minus t is below T, and with the null bulk string otherwise; so every
\* GET at or after t + T is answered with the null bulk string.
C7_GetHonoursTtl ==
    \A i \in 1..Len(dispatched) :
      (dispatched[i].cmd.op = "Get" /\ LastSetBefore(i) # 0)
      => LET set == dispatched[LastSetBefore(i)]
             live == \/ ~set.cmd.expire.some
                     \/ dispatched[i].time - set.time < set.cmd.expire.v
         IN  sreplies[i] = IF live THEN BulkString(set.cmd.value) ELSE NullBulkString

\* a SET with a ttl, then a GET exactly when the ttl is over and one later: both
\* answered with the null bulk string
C7_Witness ==
    /\ Len(dispatched) = 3
    /\ dispatched[1].cmd.op = "Set" /\ dispatched[1].cmd.expire.some
    /\ dispatched[2].cmd.op = "Get"
    /\ dispatched[2].time = dispatched[1].time + dispatched[1].cmd.expire.v
    /\ dispatched[3].cmd.op = "Get"
    /\ dispatched[3].time > dispatched[2].time
    /\ sreplies[2] = NullBulkString
    /\ sreplies[3] = NullBulkString

\* `reply` is what handle_command answers to `cmd`
ReplyTo(cmd, reply) ==
    CASE cmd.op = "Ping" -> reply = SimpleString(T_PONG)
      [] cmd.op = "Echo" -> reply = SimpleString(cmd.text)
      [] cmd.op = "Set" -> reply = SimpleString(T_OK)
      [] cmd.op = "Get" -> reply.t \in {"BulkString", "NullBulkString"}

\* C8: on a client connection the i-th command dispatched is the i-th command
\* the client wrote and the i-th reply written answers it, however the frames
\* are spread over the socket reads; once every byte written was taken in, every
\* command has been dispatched.
C8_DispatchInArrivalOrder ==
    /\ Len(dispatched) <= Len(csent)
    /\ \A i \in 1..Len(dispatched) :
         dispatched[i].cmd = csent[i] /\ ReplyTo(csent[i], sreplies[i])
    /\ (spc = "open" /\ cwire = <<>> /\ sbuf = <<>>) => Len(dispatched) = Len(csent)

\* two frames came in one socket read: the first was dispatched and answered, the
\* second is what the reader holds
C8_Witness ==
    /\ spc = "open" /\ cwire = <<>>
    /\ Len(csent) = 2 /\ Len(dispatched) = 1 /\ Len(sreplies) = 1
    /\ dispatched[1].cmd = csent[1]
    /\ sbuf = CommandBytes(csent[2])

\* C21: no pass of the session loop leaves the read buffer, the socket and the
\* connection as they were: when decoding fails the session discards a
\* non-empty prefix of the buffer, reads more, or closes the connection, so it
\* never decodes the same unchanged buffer again.
C21_NoPassRetriesSameBuffer == sspins = 0

(***************************************************************************)
(* SpecFollower: connect_master, the worker of a follower, against a peer  *)
(* that answers each handshake frame with a reply of its choice and, after *)
(* the reply to PSYNC, writes the replication stream.  A socket read       *)
(* returns any non-empty prefix of what is in flight.                      *)
(***************************************************************************)
\* commands the leader writes after the snapshot
MaxStream == 2

\* const EMPTY_RDB (main.rs line 21), decoded by decode_hex
EMPTY_RDB ==
    <<"R", "E", "D", "I", "S", "0", "0", "1", "1", "xfa", "x09",
      "r", "e", "d", "i", "s", "-", "v", "e", "r", "x05", "7",
      ".", "2", ".", "0", "xfa", "\n", "r", "e", "d", "i", "s",
      "-", "b", "i", "t", "s", "xc0", "@", "xfa", "x05", "c", "t",
      "i", "m", "e", "xc2", "m", "x08", "xbc", "e", "xfa", "x08", "u",
      "s", "e", "d", "-", "m", "e", "m", "xc2", "xb0", "xc4", "x10",
      "x00", "xfa", "x08", "a", "o", "f", "-", "b", "a", "s", "e",
      "xc0", "x00", "xff", "xf0", "n", ";", "xfe", "xc0", "xff", "Z", "xa2">>

\* the follower's own port, as format!("{}", port) prints it
ListenPortText == <<"6", "3", "8", "0">>

T_FULLRESYNC_LINE(offset) == T_FULLRESYNC \o <<" ">> \o REPL_ID \o <<" ">> \o to_string(offset)

\* lines 176, 189-193, 206-210, 223-227: what the worker writes, in order
HandshakeSends ==
    <<Array(<<BulkString(to_lowercase(T_PING))>>),
      Array(<<BulkString(T_REPLCONF), BulkString(to_lowercase(T_LISTENING_PORT)),
              BulkString(ListenPortText)>>),
      Array(<<BulkString(T_REPLCONF), BulkString(to_lowercase(T_CAPA)),
              BulkString(<<"p", "s", "y", "n", "c", "2">>)>>),
      Array(<<BulkString(T_PSYNC), BulkString(<<"?">>), BulkString(<<"-", "1">>)>>)>>

\* lines 185, 202, 219: the reply each of the first three steps compares with
ExpectedReplies == <<SimpleString(T_PONG), SimpleString(T_OK), SimpleString(T_OK)>>

\* handle_command lines 422-431: +FULLRESYNC, the length line and the blob, in
\* one write_all
psync_answer(offset) ==
    encode_to_bytes(SimpleString(T_FULLRESYNC_LINE(offset)))
      \o <<"$">> \o to_string(Len(EMPTY_RDB)) \o CRLF \o EMPTY_RDB

\* the offsets the leader may report in +FULLRESYNC
PeerOffsets == {0, 27}

\* what the peer may write as a reply
PeerAnswers ==
    {encode_to_bytes(SimpleString(T_PONG)), encode_to_bytes(SimpleString(T_OK)),
     encode_to_bytes(SimpleString(<<"N", "O">>))}
      \cup {psync_answer(offset) : offset \in PeerOffsets}

StreamCmds ==
    {Set(Key, <<":", "x">>, None), Set(Key, <<"a">>, Some(20)), Ping, GetAckCmd}

WorkerPcs == <<"ping_sent", "port_sent", "capa_sent", "psync_sent", "snapshot", "streaming">>

FollowerInit ==
    /\ LeaderInit
    /\ SessionOff
    /\ AsideOff
    /\ mwire = <<>>
    /\ wbuf = <<>>
    /\ wpc = WorkerPcs[1]
    /\ wack = 0
    /\ wmap = [k \in {Key} |-> Absent]
    /\ wsent = <<HandshakeSends[1]>>
    /\ wrecv = <<>>
    /\ blob_left = 0
    /\ psent = 0
    /\ pstream = <<>>
    /\ preported = 0 - 1
    /\ wdecoded = 0

leaderSide == <<now, redis_map, repl_offset, repl_data_offset, mainVars, sessionVars>>

WorkerAlive == wpc \notin {"stopped", "panicked"}

\* the peer answers a handshake frame it has read
PeerReply ==
    /\ WorkerAlive
    /\ psent < 4
    /\ psent < Len(wsent)
    /\ \E answer \in PeerAnswers :
         /\ mwire' = mwire \o answer
         /\ preported' = IF \E offset \in PeerOffsets : answer = psync_answer(offset)
                         THEN CHOOSE offset \in PeerOffsets : answer = psync_answer(offset)
                         ELSE preported
    /\ psent' = psent + 1
    /\ UNCHANGED <<leaderSide, wbuf, wpc, wack, wmap, wsent, wrecv, blob_left, pstream,
                   wdecoded>>

\* the leader writes a command of the replication stream
PeerStream ==
    /\ WorkerAlive
    /\ psent = 4
    /\ Len(pstream) < MaxStream
    /\ \E cmd \in StreamCmds :
         /\ mwire' = mwire \o CommandBytes(cmd)
         /\ pstream' = Append(pstream, cmd)
    /\ UNCHANGED <<leaderSide, wbuf, wpc, wack, wmap, wsent, wrecv, blob_left, psent,
                   preported, wdecoded>>

\* the worker ends: its socket is closed with it
WorkerEnds(how) ==
    /\ wpc' = how
    /\ wbuf' = <<>>
    /\ mwire' = <<>>
    /\ UNCHANGED <<wack, wmap, wsent, wrecv, blob_left, wdecoded>>

\* lines 180-187, 197-204, 214-221: a reply of the first three steps is read and
\* compared, and the next frame is written
WorkerHandshake ==
    /\ wpc \in {WorkerPcs[1], WorkerPcs[2], WorkerPcs[3]}
    /\ wbuf # <<>> \/ mwire # <<>>
    /\ \E nread \in ReadSizes(wbuf, mwire) :
         LET bytes == fill_buf(wbuf, mwire, nread)
             tok == tokenize_bytes(bytes)
             step == Len(wrecv) + 1
         IN  CASE tok.st = "panic" -> WorkerEnds("panicked")
               [] tok.st = "err" -> WorkerEnds("stopped")
               [] tok.st = "ok" /\ tok.val # ExpectedReplies[step] -> WorkerEnds("stopped")
               [] tok.st = "ok" /\ tok.val = ExpectedReplies[step] ->
                    /\ wbuf' = tok.remainder
                    /\ mwire' = after_fill(wbuf, mwire, nread)
                    /\ wrecv' = Append(wrecv, tok.val)
                    /\ wsent' = Append(wsent, HandshakeSends[step + 1])
                    /\ wpc' = WorkerPcs[step + 1]
                    /\ UNCHANGED <<wack, wmap, blob_left, wdecoded>>
    /\ UNCHANGED <<leaderSide, psent, pstream, preported>>

IsWhitespace(c) == c \in {" ", "\t", "\n", "\r", "x0c"}

\* str::split_ascii_whitespace
RECURSIVE split_ascii_whitespace(_)
split_ascii_whitespace(text) ==
    IF text = <<>> THEN <<>>
    ELSE IF IsWhitespace(text[1]) THEN split_ascii_whitespace(Tail(text))
    ELSE LET stops == {i \in 1..Len(text) : IsWhitespace(text[i])}
             end == IF stops = {} THEN Len(text) + 1
                    ELSE CHOOSE i \in stops : \A j \in stops : i <= j
         IN  <<SubSeq(text, 1, end - 1)>>
               \o split_ascii_whitespace(SubSeq(text, end, Len(text)))

starts_with(text, prefix) ==
    Len(text) >= Len(prefix) /\ SubSeq(text, 1, Len(prefix)) = prefix

\* lines 236-242: the offset of a +FULLRESYNC reply
resync_offset(tokens) ==
    IF tokens.t = "SimpleString" /\ starts_with(tokens.s, T_FULLRESYNC)
    THEN LET split_text == split_ascii_whitespace(tokens.s)
         IN  parse_i64(IF Len(split_text) >= 3 THEN split_text[3] ELSE <<"0">>)
    ELSE [ok |-> FALSE, v |-> 0]

\* lines 231-242: the reply to PSYNC
WorkerFullResync ==
    /\ wpc = WorkerPcs[4]
    /\ wbuf # <<>> \/ mwire # <<>>
    /\ \E nread \in ReadSizes(wbuf, mwire) :
         LET bytes == fill_buf(wbuf, mwire, nread)
             tok == tokenize_bytes(bytes)
             offset == resync_offset(tok.val)
         IN  CASE tok.st = "panic" -> WorkerEnds("panicked")
               [] tok.st = "err" -> WorkerEnds("stopped")
               [] tok.st = "ok" /\ ~offset.ok -> WorkerEnds("stopped")
               [] tok.st = "ok" /\ offset.ok ->
                    /\ wbuf' = tok.remainder
                    /\ mwire' = after_fill(wbuf, mwire, nread)
                    /\ wrecv' = Append(wrecv, tok.val)
                    /\ wack' = offset.v
                    /\ wpc' = WorkerPcs[5]
                    /\ UNCHANGED <<wmap, wsent, blob_left, wdecoded>>
    /\ UNCHANGED <<leaderSide, psent, pstream, preported>>

\* BufReader::consume: no more than what is buffered
consume(buf, amt) == SubSeq(buf, (IF amt < Len(buf) THEN amt ELSE Len(buf)) + 1, Len(buf))

\* lines 244-249: the length line of the snapshot, and the blob
WorkerSnapshot ==
    /\ wpc = WorkerPcs[5]
    /\ wbuf # <<>> \/ mwire # <<>>
    /\ \E nread \in ReadSizes(wbuf, mwire) :
         LET bytes == fill_buf(wbuf, mwire, nread)
             next == read_next_line(bytes)
             rdb_len_line == next.line
             rdb_bytes_len == parse_unsigned(Tail(rdb_len_line), NoMax)
         IN  CASE rdb_len_line = <<>> -> WorkerEnds("panicked")
               [] rdb_len_line # <<>>
                    /\ (~from_utf8_ok(Tail(rdb_len_line)) \/ ~rdb_bytes_len.ok) ->
                    WorkerEnds("stopped")
               [] rdb_len_line # <<>> /\ from_utf8_ok(Tail(rdb_len_line)) /\ rdb_bytes_len.ok ->
                    /\ wbuf' = consume(next.remainder, rdb_bytes_len.v)
                    /\ mwire' = after_fill(wbuf, mwire, nread)
                    /\ blob_left' = Len(consume(next.remainder, rdb_bytes_len.v))
                                      + Len(after_fill(wbuf, mwire, nread))
                                      - Len(EncodeAll([i \in 1..Len(pstream) |->
                                                         Resp_from(pstream[i])]))
                    /\ wpc' = WorkerPcs[6]
                    /\ UNCHANGED <<wack, wmap, wsent, wrecv, wdecoded>>
    /\ UNCHANGED <<leaderSide, psent, pstream, preported>>

\* lines 251-272: one pass of the streaming loop
WorkerStream ==
    /\ wpc = WorkerPcs[6]
    /\ wbuf # <<>> \/ mwire # <<>>
    /\ \E nread \in ReadSizes(wbuf, mwire) :
         LET bytes == fill_buf(wbuf, mwire, nread)
             tok == tokenize_bytes(bytes)
             command == RedisCommands_try_from(tok.val)
         IN  CASE tok.st = "panic" -> WorkerEnds("panicked")
               [] tok.st = "err" ->
                    \* lines 263-271: the remainder is the whole buffer, so nothing
                    \* is consumed or counted and the next fill_buf returns the same
                    \* bytes
                    /\ LET remainder == untokenizable_remainder(bytes)
                           consumed_bytes == Len(bytes) - Len(remainder)
                       IN  /\ wbuf' = consume_front(bytes, consumed_bytes)
                           /\ wack' = wack + consumed_bytes
                    /\ mwire' = after_fill(wbuf, mwire, nread)
                    /\ UNCHANGED <<wpc, wmap, wsent, wrecv, blob_left, wdecoded>>
               [] tok.st = "ok" /\ command.st = "panic" -> WorkerEnds("panicked")
               [] tok.st = "ok" /\ command.st = "err" -> WorkerEnds("stopped")
               [] tok.st = "ok" /\ command.st = "ok" ->
                    /\ wbuf' = consume_front(bytes, Len(bytes) - Len(tok.remainder))
                    /\ mwire' = after_fill(wbuf, mwire, nread)
                    /\ wmap' = master_command_map(command.cmd, wmap, now)
                    /\ LET consumed_bytes == Len(bytes) - Len(tok.remainder)
                           writes == master_command_writes(
                                         command.cmd, reported_offset(wack, consumed_bytes))
                       IN  /\ wsent' = wsent \o [i \in 1..Len(writes) |-> Resp_from(writes[i])]
                           /\ wack' = wack + consumed_bytes
                           /\ wdecoded' = wdecoded + consumed_bytes
                    /\ UNCHANGED <<wpc, wrecv, blob_left>>
    /\ UNCHANGED <<leaderSide, psent, pstream, preported>>

FollowerNext ==
    \/ PeerReply
    \/ PeerStream
    \/ WorkerHandshake
    \/ WorkerFullResync
    \/ WorkerSnapshot
    \/ WorkerStream

SpecFollower == FollowerInit /\ [][FollowerNext]_vars

(***************************************************************************)
(* Properties of SpecFollower                                              *)
(***************************************************************************)
\* the SETs of `commands`, applied in order to `map`
RECURSIVE ApplySets(_, _)
ApplySets(map, commands) ==
    IF commands = <<>> THEN map
    ELSE ApplySets(IF Head(commands).op = "Set" THEN map_insert(map, Head(commands), 0)
                   ELSE map,
                   Tail(commands))

\* key -> value and ttl
Visible(map) ==
    [k \in DOMAIN map |->
       IF map[k].present THEN [value |-> map[k].value, expire |-> map[k].expire]
       ELSE Absent]

\* C2: the follower's keyspace holds, key by key, the value and ttl that the
\* SETs of a prefix of the commands the leader wrote after the snapshot give
\* when applied in stream order to an empty map, the other frames changing
\* nothing; the prefix is the whole stream once a follower that entered the
\* streaming state at the first byte after the snapshot has taken in all of it.
C2_KeyspaceIsFoldOfStream ==
    /\ \E n \in 0..Len(pstream) :
         Visible(wmap) = Visible(ApplySets([k \in {Key} |-> Absent], SubSeq(pstream, 1, n)))
    /\ (wpc = "streaming" /\ blob_left = 0 /\ mwire = <<>> /\ wbuf = <<>>)
       => Visible(wmap) = Visible(ApplySets([k \in {Key} |-> Absent], pstream))

\* a SET and then a GETACK were written and taken in whole: the key holds the
\* SET's value
C2_Witness ==
    /\ wpc = "streaming" /\ blob_left = 0 /\ mwire = <<>> /\ wbuf = <<>>
    /\ Len(pstream) = 2
    /\ pstream[1].op = "Set" /\ pstream[2] = GetAckCmd
    /\ wmap[Key].present /\ wmap[Key].value = pstream[1].value

\* C9: the worker writes PING, REPLCONF listening-port, REPLCONF capa and PSYNC
\* in this order, each after it accepted +PONG, +OK, +OK for the one before; a
\* worker that stopped has written nothing after the reply it refused; the
\* streaming state is entered only after a +FULLRESYNC reply and after all the
\* leader wrote up to the end of the snapshot was taken in.
C9_HandshakeInOrder ==
    LET steps == IF Len(wrecv) < 3 THEN Len(wrecv) ELSE 3
        sends == IF Len(wsent) < 4 THEN Len(wsent) ELSE 4
    IN  /\ SubSeq(wsent, 1, sends) = SubSeq(HandshakeSends, 1, sends)
        /\ SubSeq(wrecv, 1, steps) = SubSeq(ExpectedReplies, 1, steps)
        /\ sends = steps + 1
        /\ Len(wrecv) <= 4
        /\ Len(wrecv) = 4 => resync_offset(wrecv[4]).ok
        /\ \A i \in 1..4 : wpc = WorkerPcs[i] => Len(wrecv) = i - 1 /\ Len(wsent) = i
        /\ wpc \in {WorkerPcs[5], WorkerPcs[6]} => Len(wrecv) = 4
        /\ Len(wrecv) < 4 => Len(wsent) = sends
        /\ wpc = "streaming" => blob_left = 0

\* C12: the worker enters the streaming state with ack_offset at the offset the
\* leader's +FULLRESYNC reported; from then on ack_offset never decreases, and
\* after each frame decoded from the stream it is that offset plus the bytes of
\* all frames decoded so far.
C12_AckOffsetCountsDecodedFrames ==
    [][/\ (wpc # "streaming" /\ wpc' = "streaming") => wack' = preported
       /\ (wpc = "streaming" /\ wpc' = "streaming") => wack' >= wack
       /\ (wpc = "streaming" /\ wdecoded' > wdecoded) => wack' = preported + wdecoded']_vars

\* the worker, in the streaming loop, writes a frame to the leader in this step
WorkerAnswers == wpc = "streaming" /\ Len(wsent') = Len(wsent) + 1

\* bytes the worker takes off its stream in this step
ConsumedInStep == (Len(wbuf) + Len(mwire)) - (Len(wbuf') + Len(mwire'))

\* C17 as claimed: the offset of the REPLCONF ACK written in answer to a GETACK
\* is ack_offset with the bytes of that GETACK frame already added.
C17_AckIncludesTheGetAck ==
    [][WorkerAnswers => wsent'[Len(wsent')] = Resp_from(ReplConf(Ack(wack')))]_vars

\* C17 as amended: the offset of the REPLCONF ACK written in answer to a GETACK
\* is ack_offset as it was when the frame was decoded; the bytes of the GETACK
\* frame are added to ack_offset in the same pass, after the reply was written.
C17_AckExcludesTheGetAck ==
    [][WorkerAnswers
       => /\ wsent'[Len(wsent')] = Resp_from(ReplConf(Ack(wack)))
          /\ ConsumedInStep > 0
          /\ wack' = wack + ConsumedInStep]_vars

\* two GETACKs after +FULLRESYNC ... 0: answered with 0 and with the 37 bytes of
\* the first
C17_Witness ==
    /\ wpc = "streaming"
    /\ preported = 0
    /\ Len(wsent) = 6
    /\ wsent[5] = Resp_from(ReplConf(Ack(0)))
    /\ wsent[6] = Resp_from(ReplConf(Ack(Len(CommandBytes(GetAckCmd)))))
    /\ wack = 2 * Len(CommandBytes(GetAckCmd))

\* C22: however the leader's bytes are split over the socket reads, the worker
\* has discarded the whole blob when it enters the streaming loop: what is left
\* to read, buffered or in flight, is exactly the frames the leader wrote after
\* the blob, so the first frame decoded starts at the first byte after it.
C22_StreamStartsAfterBlob ==
    [][(wpc = "snapshot" /\ wpc' = "streaming")
       => wbuf' \o mwire' = EncodeAll([i \in 1..Len(pstream) |-> Resp_from(pstream[i])])]_vars

(***************************************************************************)
(* SpecInbound: handle_replica_commands, the leader's worker on the socket *)
(* of one registered follower.  The peer writes whole REPLCONF ACK frames  *)
(* with offsets of its choice; a socket read returns any non-empty prefix  *)
(* of what is in flight.                                                   *)
(***************************************************************************)
\* frames the peer writes
MaxAcks == 2

\* the offsets the peer's frames may carry
AckOffsets == {0 - 1, 0, 28, 55}

InboundInit ==
    /\ LeaderBase
    /\ replicas_data = <<[stream |-> "f1", latest_offset |-> 0]>>
    /\ lpc = [f \in Followers |-> IF f = "f1" THEN "promoted" ELSE "psync"]
    /\ fpc = [f \in Followers |-> IF f = "f1" THEN "streaming" ELSE "psync_sent"]
    /\ SessionOff
    /\ WorkerOff
    /\ iwire = <<>>
    /\ ipc = "open"
    /\ isent = <<>>
    /\ cin = [kind |-> "none"]
    /\ cout = [st |-> "none"]

inboundRest ==
    <<now, redis_map, repl_offset, repl_data_offset, th, last_reply, lpc, fpc, ack_offset,
      fmap, stream, acks, broken, historyVars, role_lock, sessionVars, workerVars, codecVars>>

\* the peer writes one REPLCONF ACK frame
PeerAck ==
    /\ Len(isent) < MaxAcks
    /\ \E offset \in AckOffsets :
         /\ iwire' = iwire \o CommandBytes(ReplConf(Ack(offset)))
         /\ isent' = Append(isent, ReplConf(Ack(offset)))
    /\ UNCHANGED <<inboundRest, replicas_data, ipc>>

\* line 539: `offset as u64` is stored, whatever the entry held; the cast keeps
\* the 64 bits of the i64 (see u64_ge)
latest_offset_after(latest_offset, offset) == offset

\* lines 536-542: what a command does to the entry of index `replica_index`
inbound_registry(registry, replica_index, command) ==
    IF command.op = "ReplConf" /\ command.mode.m = "Ack" /\ replica_index <= Len(registry)
    THEN [registry EXCEPT ![replica_index].latest_offset =
                            latest_offset_after(@, command.mode.offset)]
    ELSE registry

\* handle_replica_commands lines 525-552: one pass of the loop.  Line 526 makes a
\* new BufReader in every pass: what the read returned beyond the first frame
\* is dropped with it.  An Err of line 535 is unwrapped by the spawning closure
\* (line 329).
InboundStep ==
    /\ ipc = "open"
    /\ iwire # <<>>
    /\ \E nread \in ReadSizes(<<>>, iwire) :
         LET bytes == fill_buf(<<>>, iwire, nread)
             tok == tokenize_bytes(bytes)
             command == RedisCommands_try_from(tok.val)
         IN  /\ iwire' = after_fill(<<>>, iwire, nread)
             /\ CASE tok.st = "panic" -> ipc' = "panicked" /\ UNCHANGED replicas_data
                  [] tok.st = "err" -> UNCHANGED <<ipc, replicas_data>>
                  [] tok.st = "ok" /\ command.st # "ok" ->
                       ipc' = "panicked" /\ UNCHANGED replicas_data
                  [] tok.st = "ok" /\ command.st = "ok" ->
                       /\ replicas_data' = inbound_registry(replicas_data, 1, command.cmd)
                       /\ UNCHANGED ipc
    /\ UNCHANGED <<inboundRest, isent>>

InboundNext == PeerAck \/ InboundStep

SpecInbound == InboundInit /\ [][InboundNext]_vars

(***************************************************************************)
(* Properties of SpecInbound                                               *)
(***************************************************************************)
\* C11: the latest_offset of a registry entry never decreases, whatever offsets
\* the REPLCONF ACK frames read on its follower's socket carry.
C11_LatestOffsetNeverDecreases ==
    [][\A i \in 1..Len(replicas_data) :
         u64_ge(replicas_data'[i].latest_offset, replicas_data[i].latest_offset)]_vars

\* the offsets of the frames the follower wrote, in order
SentOffsets == [i \in 1..Len(isent) |-> isent[i].mode.offset]

\* C26: every REPLCONF ACK frame the follower wrote is applied to its entry,
\* several frames returned by one socket read included: once all it wrote has
\* been read, the entry of a follower whose offsets were not negative and never
\* went down holds the offset of the last frame.
C26_EveryAckIsApplied ==
    (/\ ipc = "open" /\ iwire = <<>> /\ isent # <<>>
     /\ \A i \in 1..Len(isent) : SentOffsets[i] >= 0
     /\ \A i \in 1..(Len(isent) - 1) : SentOffsets[i] <= SentOffsets[i + 1])
    => replicas_data[1].latest_offset = SentOffsets[Len(isent)]

\* targets a WAIT may have taken: the data_offset after one and after two SETs
InboundTargets == {27, 55}

\* C27: a follower is counted as caught up for a target above 0 only if one of
\* the REPLCONF ACK frames it wrote carried an offset at or above the target; a
\* frame with a negative offset never makes it count.
C27_NegativeAckNeverCounts ==
    \A target \in InboundTargets :
      CountOks(target) > 0 => \E i \in 1..Len(isent) : SentOffsets[i] >= target

(***************************************************************************)
(* SpecTwin: two follower processes.  Each is written a replication stream *)
(* of its own by the leader and applies it (FollowerApply), and each       *)
(* serves one local client connection through handle_command.              *)
(***************************************************************************)
\* frames the leader writes to each follower
MaxFeed == 2

\* commands each local client connection sends
MaxLocal == 2

TwinCmds == {Set(Key, <<"a">>, None), Set(Key, <<"b", "b">>, Some(20)), Ping}

LocalCmds == {Get(Key), Ping, Set(Key, <<"z">>, None)}

\* the connection of the local client of follower f
LocalClient(f) == IF f = "f1" THEN "c1" ELSE "c2"

TwinInit ==
    /\ LeaderBase
    /\ replicas_data = <<>>
    /\ lpc = [f \in Followers |-> "promoted"]
    /\ fpc = [f \in Followers |-> "streaming"]
    /\ SessionOff
    /\ WorkerOff
    /\ AsideOff

\* the leader writes a frame to the socket of follower f (sent_log keeps the
\* commands written to each follower)
TwinFeed(f) ==
    /\ Len(sent_log[f]) < MaxFeed
    /\ \E cmd \in TwinCmds :
         /\ stream' = [stream EXCEPT ![f] = Append(@, cmd)]
         /\ sent_log' = [sent_log EXCEPT ![f] = Append(@, cmd)]
    /\ UNCHANGED <<now, leaderVars, th, last_reply, lpc, fpc, ack_offset, fmap, acks, broken,
                   commit_log, completed_max, sessionVars, workerVars, asideVars>>

\* handle_command lines 360-368 on a follower: SET writes the keyspace before
\* the role is looked at
replica_command_map(cmd, map, time) ==
    IF cmd.op = "Set" THEN map_insert(map, cmd, time) ELSE map

\* lines 378-380: on a follower the SET arm ends in unimplemented!(), after the
\* insert; the other commands are answered
replica_command_panics(cmd) == cmd.op = "Set"

\* handle_client and handle_command on a local client connection of follower f
LocalCommand(f) ==
    LET c == LocalClient(f)
    IN  /\ th[c].t.pc = "idle"
        /\ th[c].issued < MaxLocal
        /\ \E cmd \in LocalCmds :
             /\ fmap' = [fmap EXCEPT ![f] = replica_command_map(cmd, @, now)]
             /\ IF replica_command_panics(cmd)
                THEN /\ th' = [th EXCEPT ![c].issued = @ + 1, ![c].op = cmd.op,
                                         ![c].t.pc = "panicked"]
                     /\ UNCHANGED last_reply
                ELSE /\ th' = [th EXCEPT ![c].issued = @ + 1, ![c].op = cmd.op]
                     /\ last_reply' = [last_reply EXCEPT
                                         ![c] = simple_reply(cmd, fmap[f], 0, now)]
        /\ UNCHANGED <<now, leaderVars, lpc, fpc, ack_offset, stream, acks, broken,
                       historyVars, sessionVars, workerVars, asideVars>>

TwinNext == \E f \in Followers : TwinFeed(f) \/ FollowerApply(f) \/ LocalCommand(f)

SpecTwin == TwinInit /\ [][TwinNext]_vars

(***************************************************************************)
(* Properties of SpecTwin                                                  *)
(***************************************************************************)
\* the commands follower f has applied: what was written to it and is read
Applied(f) == SubSeq(sent_log[f], 1, Len(sent_log[f]) - Len(stream[f]))

\* C13: two followers that have applied the same replication stream hold the
\* same keys with the same values and ttls, whatever their local client
\* connections sent; a SET sent by a local client changes nothing.
C13_SameStreamSameKeyspace ==
    \A f, g \in Followers :
      Applied(f) = Applied(g) => Visible(fmap[f]) = Visible(fmap[g])

(***************************************************************************)
(* SpecCodec: one call of tokenize_bytes on the bytes of a frame followed  *)
(* by a suffix, or on a strict prefix of them, or one call of              *)
(* RedisCommands::try_from on the frame rendered from a command.           *)
(***************************************************************************)
CodecTexts == {<<>>, <<"a">>, <<"O", "K">>, <<"h", "i", "!">>}

\* a payload holding CR LF
CrLfText == <<"a", "\r", "\n", "b">>

CodecFrames ==
    {BulkString(text) : text \in CodecTexts \cup {CrLfText}}
      \cup {SimpleString(text) : text \in CodecTexts}
      \cup {Integer(num) : num \in {0, 7, 0 - 12}}
      \cup {NullBulkString,
            Array(<<>>),
            Array(<<BulkString(T_PING)>>),
            Array(<<BulkString(T_GET), BulkString(Key)>>),
            Array(<<Integer(1), SimpleString(T_OK)>>),
            Array(<<Array(<<BulkString(Key)>>), NullBulkString>>)}

CodecSuffixes == {<<>>, <<"+">>, <<"x", "y">>, CRLF, CommandBytes(Ping)}

CodecCommands ==
    {Ping, Echo(<<"h", "i", "!">>), Get(Key),
     Set(Key, <<"a">>, None), Set(Key, <<"a">>, Some(100)),
     Info(None), Info(Some("Replication")),
     ReplConf(ListeningPort(6380)), ReplConf(Capability(<<"p", "s", "y", "n", "c", "2">>)),
     GetAckCmd, ReplConf(Ack(27)), ReplConf(Ack(0 - 1)),
     PSync(<<"?">>, 0 - 1), PSync(REPL_ID, 27),
     Wait(1, 20), Wait(0, 0)}

CodecInputs ==
    {[kind |-> "decode", v |-> v, suffix |-> suffix] :
       v \in CodecFrames, suffix \in CodecSuffixes}
      \cup UNION {{[kind |-> "prefix", v |-> v, n |-> n] :
                     n \in 0..(Len(encode_to_bytes(v)) - 1)} : v \in CodecFrames}
      \cup {[kind |-> "command", c |-> c] : c \in CodecCommands}

CodecInit ==
    /\ LeaderInit
    /\ SessionOff
    /\ WorkerOff
    /\ iwire = <<>>
    /\ ipc = "off"
    /\ isent = <<>>
    /\ cin \in CodecInputs
    /\ cout = [st |-> "none"]

\* tokenize_bytes on the bytes of a frame and a suffix
CodecDecode ==
    /\ cin.kind = "decode"
    /\ cout.st = "none"
    /\ cout' = tokenize_bytes(encode_to_bytes(cin.v) \o cin.suffix)
    /\ UNCHANGED <<now, redis_map, repl_offset, repl_data_offset, replicas_data, th,
                   last_reply, followerVars, historyVars, role_lock, sessionVars, workerVars,
                   inboundVars, cin>>

\* tokenize_bytes on the first n bytes of a frame
CodecPrefix ==
    /\ cin.kind = "prefix"
    /\ cout.st = "none"
    /\ cout' = tokenize_bytes(SubSeq(encode_to_bytes(cin.v), 1, cin.n))
    /\ UNCHANGED <<now, redis_map, repl_offset, repl_data_offset, replicas_data, th,
                   last_reply, followerVars, historyVars, role_lock, sessionVars, workerVars,
                   inboundVars, cin>>

\* RedisCommands::try_from on the frame Resp::from renders
CodecCommand ==
    /\ cin.kind = "command"
    /\ cout.st = "none"
    /\ cout' = RedisCommands_try_from(Resp_from(cin.c))
    /\ UNCHANGED <<now, redis_map, repl_offset, repl_data_offset, replicas_data, th,
                   last_reply, followerVars, historyVars, role_lock, sessionVars, workerVars,
                   inboundVars, cin>>

CodecNext == CodecDecode \/ CodecPrefix \/ CodecCommand

SpecCodec == CodecInit /\ [][CodecNext]_vars

(***************************************************************************)
(* Properties of SpecCodec                                                 *)
(***************************************************************************)
\* C14: decoding the bytes of a well-formed frame v followed by any suffix s
\* returns v and leaves exactly s.
C14_DecodeInvertsEncode ==
    (cin.kind = "decode" /\ cout.st # "none") => cout = TokOk(cin.suffix, cin.v)

\* C15: decoding a strict prefix of the bytes of a frame fails with an error; it
\* returns no frame.
C15_PrefixIsAnError ==
    (cin.kind = "prefix" /\ cout.st # "none") => cout.st = "err"

\* C16: parsing the frame rendered from a command yields that command, for every
\* variant of the command model, WAIT included.
C16_ParseInvertsRender ==
    (cin.kind = "command" /\ cout.st # "none") => cout = CmdOk(cin.c)

====
